---- MODULE Spec2Model ----
(***************************************************************************)
(* pycargoebuild: license aggregation (cargo.py, ebuild.py) and the        *)
(* in-place patch of an existing ebuild (ebuild.py, update_ebuild).        *)
(*                                                                         *)
(* Text is a sequence of lexemes.  A lexeme is one character, except that  *)
(* the literals the code looks for are single lexemes:                     *)
(*   "C"   the text  CRATES=                                               *)
(*   "M"   the text  # Dependent crate licenses\nLICENSE+=                 *)
(*   "Q"   the double quote         "N"   the newline                      *)
(*   "/"   the slash                " "   the space                        *)
(*   "AND" "OR" "(" ")"  and license identifiers such as "MIT"             *)
(* Offsets are 0-based as in Python: the lexeme at offset k is text[k+1].  *)
(***************************************************************************)
EXTENDS Integers, Sequences, FiniteSets, TLC

VARIABLES doc, archives, meta, decl, ret

vars == <<doc, archives, meta, decl, ret>>

\* ------------------------------------------------------------------------
\* Python helpers

\* s[a:b] for 0 <= a, b <= len(s)
Slice(s, a, b) == SubSeq(s, a + 1, b)

\* s[a:]
SliceFrom(s, a) == SubSeq(s, a + 1, Len(s))

\* s[:b]
SliceTo(s, b) == SubSeq(s, 1, b)

RECURSIVE Concat(_)
\* "".join(parts)
Concat(parts) ==
    IF parts = <<>> THEN <<>> ELSE Head(parts) \o Concat(Tail(parts))

RECURSIVE Join(_, _)
\* sep.join(parts)
Join(sep, parts) ==
    IF parts = <<>> THEN <<>>
    ELSE IF Len(parts) = 1 THEN parts[1]
    ELSE parts[1] \o sep \o Join(sep, Tail(parts))

\* None, where a text is optional: "None" is no lexeme of any text
None == <<"None">>

\* No exception
NoExc == "none"

\* ------------------------------------------------------------------------
\* cargo.py

RECURSIVE cargo_to_spdx_first(_)
\* A wrong cargo_to_spdx: license_str.replace("/", " OR ", 1)
cargo_to_spdx_first(s) ==
    IF s = <<>> THEN <<>>
    ELSE IF Head(s) = "/" THEN <<" ", "OR", " ">> \o Tail(s)
    ELSE <<Head(s)>> \o cargo_to_spdx_first(Tail(s))

RECURSIVE cargo_to_spdx(_)
\* license_str.replace("/", " OR ")
cargo_to_spdx(s) ==
    IF s = <<>> THEN <<>>
    ELSE IF Head(s) = "/" THEN <<" ", "OR", " ">> \o cargo_to_spdx(Tail(s))
    ELSE <<Head(s)>> \o cargo_to_spdx(Tail(s))

\* class PackageMetadata
PackageMetadata(name, version, license, description, homepage) ==
    [name |-> name, version |-> version, license |-> license,
     description |-> description, homepage |-> homepage]

\* The outcome of a call: the value returned, or the exception raised
Return(v) == [exc |-> NoExc, value |-> v]
Raise(e) == [exc |-> e, value |-> None]

\* dict.get(key): the value or None
DictGet(d, k) == IF k \in DOMAIN d THEN d[k] ELSE None

\* f is the parsed Cargo.toml: a dict whose "package" entry is a dict
get_package_metadata(f) ==
    IF "package" \notin DOMAIN f THEN Raise("KeyError")
    ELSE LET pkg_meta == f["package"] IN
         IF "license_file" \in DOMAIN pkg_meta THEN Raise("AssertionError")
         ELSE IF {"name", "version", "license"} \ DOMAIN pkg_meta # {}
              THEN Raise("KeyError")
         ELSE Return(PackageMetadata(pkg_meta["name"], pkg_meta["version"],
                                     cargo_to_spdx(pkg_meta["license"]),
                                     DictGet(pkg_meta, "description"),
                                     DictGet(pkg_meta, "homepage")))

\* ------------------------------------------------------------------------
\* license_expression (the library ebuild.py calls): parse and simplify

\* The license keys get_spdx_licensing() knows, of those the model writes
KnownLicenses == {"MIT", "Apache-2.0"}

\* A node of an expression: a license key, or AND / OR over arguments
Symbol(k) == [op |-> "SYM", key |-> k, args |-> <<>>]
Function(o, a) == [op |-> o, key |-> "", args |-> a]
ParseError == [op |-> "ERR", key |-> "", args |-> <<>>]

\* None, where an expression is optional
NoExpression == [op |-> "NONE", key |-> "", args |-> <<>>]

\* The tokenizer skips white space
Tokenize(s) == SelectSeq(s, LAMBDA c : c # " ")

\* Parentheses open before position i
Depth(toks, i) ==
    Cardinality({j \in 1..(i - 1) : toks[j] = "("})
    - Cardinality({j \in 1..(i - 1) : toks[j] = ")"})

Balanced(toks) ==
    /\ \A i \in 1..(Len(toks) + 1) : Depth(toks, i) >= 0
    /\ Depth(toks, Len(toks) + 1) = 0

\* Positions of operator o outside every parenthesis
TopLevel(toks, o) ==
    {i \in 1..Len(toks) : toks[i] = o /\ Depth(toks, i) = 0}

Min(S) == CHOOSE x \in S : \A y \in S : x <= y
Max(S) == CHOOSE x \in S : \A y \in S : x >= y

RECURSIVE ParseExpr(_)
RECURSIVE ParseArgs(_, _)
\* The operands of a chain  a o b o c
ParseArgs(toks, o) ==
    IF TopLevel(toks, o) = {} THEN <<ParseExpr(toks)>>
    ELSE LET p == Min(TopLevel(toks, o)) IN
         <<ParseExpr(SubSeq(toks, 1, p - 1))>>
             \o ParseArgs(SubSeq(toks, p + 1, Len(toks)), o)

\* OR binds weaker than AND; validate=True refuses unknown keys, strict
\* syntax refuses missing operands and unbalanced parentheses
ParseExpr(toks) ==
    LET chain(o) ==
            LET a == ParseArgs(toks, o) IN
            IF \E i \in 1..Len(a) : a[i].op = "ERR" THEN ParseError
            ELSE Function(o, a)
    IN
    IF toks = <<>> \/ ~Balanced(toks) THEN ParseError
    ELSE IF TopLevel(toks, "OR") # {} THEN chain("OR")
    ELSE IF TopLevel(toks, "AND") # {} THEN chain("AND")
    ELSE IF Len(toks) >= 2 /\ toks[1] = "(" /\ toks[Len(toks)] = ")"
         THEN ParseExpr(SubSeq(toks, 2, Len(toks) - 1))
    ELSE IF Len(toks) = 1 /\ toks[1] \in KnownLicenses THEN Symbol(toks[1])
    ELSE ParseError

\* spdx.parse(text, validate=True, strict=True): None for a blank text
Parse(text) ==
    IF Tokenize(text) = <<>> THEN Return(NoExpression)
    ELSE LET e == ParseExpr(Tokenize(text)) IN
         IF e.op = "ERR" THEN Raise("ExpressionError") ELSE Return(e)

Range(f) == {f[i] : i \in DOMAIN f}

RECURSIVE SetToSeq(_)
\* The arguments of a function in their (fixed) sorted order
SetToSeq(S) ==
    IF S = {} THEN <<>>
    ELSE LET x == CHOOSE y \in S : TRUE IN <<x>> \o SetToSeq(S \ {x})

\* target contains absorber: an argument of it, or a function of the same
\* kind all of whose arguments are arguments of it
Contains(target, absorber) ==
    \/ absorber \in Range(target.args)
    \/ /\ absorber.op = target.op
       /\ Range(absorber.args) \subseteq Range(target.args)

Dual(o) == IF o = "AND" THEN "OR" ELSE "AND"

\* A & (A | B) = A,  A | (A & B) = A
Absorb(o, args) ==
    {t \in args :
        ~(t.op = Dual(o) /\ \E a \in args : a # t /\ Contains(t, a))}

RECURSIVE Simplify(_)
\* expression.simplify(): arguments simplified, nested functions of the same
\* kind flattened, duplicates dropped, absorption applied, arguments sorted
Simplify(e) ==
    IF e.op = "SYM" THEN e
    ELSE LET simple == {Simplify(e.args[i]) : i \in 1..Len(e.args)}
             flat == {a \in simple : a.op # e.op}
                     \cup UNION {Range(a.args) :
                                    a \in {b \in simple : b.op = e.op}}
             kept == Absorb(e.op, flat)
         IN IF Cardinality(kept) = 1 THEN CHOOSE a \in kept : TRUE
            ELSE Function(e.op, SetToSeq(kept))

\* ------------------------------------------------------------------------
\* pycargoebuild.license and pycargoebuild.format

RECURSIVE spdx_sub(_, _)
\* One node in ebuild syntax: AND is juxtaposition, OR is  || ( ... )
spdx_sub(x, in_or) ==
    LET items == x.args
        inner == Join(<<" ">>, [i \in 1..Len(items) |->
                                    spdx_sub(items[i], x.op = "OR")])
    IN IF x.op = "SYM" THEN <<x.key>>
       ELSE IF x.op = "OR" THEN <<"||", " ", "(", " ">> \o inner \o <<" ", ")">>
       ELSE IF in_or THEN <<"(", " ">> \o inner \o <<" ", ")">>
       ELSE inner

\* spdx_to_ebuild(expression): the expression in the ebuild's license syntax
spdx_to_ebuild(spdx) == spdx_sub(spdx, FALSE)

\* format_license_var(license_str, prefix): one line, unless more than one
\* parenthesised group stands at the top level: then one group per line
format_license_var(license_str, prefix) ==
    LET breaks(i) == /\ license_str[i] = " "
                     /\ Depth(license_str, i) = 0
                     /\ license_str[i - 1] # "||"
    IN IF Cardinality(TopLevel(license_str, "||")) <= 1 THEN license_str
       ELSE <<"N", "TAB">>
            \o Concat([i \in 1..Len(license_str) |->
                          IF breaks(i) THEN <<"N", "TAB">>
                          ELSE <<license_str[i]>>])
            \o <<"N">>

\* ------------------------------------------------------------------------
\* ebuild.py

\* EBUILD_TEMPLATE.format(...)
EBUILD_TEMPLATE(crates, crate_licenses, description, homepage, pkg_license, prog_version, year) ==
    <<"# Copyright ", year, " Gentoo Authors", "N",
      "# Distributed under the terms of the GNU General Public License v2",
      "N", "N",
      "# Autogenerated by pycargoebuild ", prog_version, "N", "N",
      "EAPI=8", "N", "N",
      "C", "Q">> \o crates \o <<"Q", "N", "N",
      "inherit cargo", "N", "N",
      "DESCRIPTION=", "Q">> \o description \o <<"Q", "N",
      "HOMEPAGE=", "Q">> \o homepage \o <<"Q", "N",
      "SRC_URI=", "Q", "N", "TAB", "$(cargo_crate_uris)", "N", "Q", "N", "N",
      "LICENSE=", "Q">> \o pkg_license \o <<"Q", "N",
      "M", "Q">> \o crate_licenses \o <<"Q", "N",
      "SLOT=", "Q", "0", "Q", "N",
      "KEYWORDS=", "Q", "~amd64", "Q", "N">>

DotCrate == <<".", "c", "r", "a", "t", "e">>

\* p.name[:-6]
Stem(name) == SliceTo(name, Max({Len(name) - 6, 0}))

\* name.endswith(".crate")
EndsWithCrate(name) ==
    Len(name) >= 6 /\ SliceFrom(name, Len(name) - 6) = DotCrate

get_CRATES(crate_files) ==
    IF crate_files = <<>> THEN <<>>
    ELSE <<"N">>
         \o Join(<<"N">>, [i \in 1..Len(crate_files) |->
                              <<"TAB">> \o Stem(crate_files[i].name)])
         \o <<"N">>

get_package_LICENSE(pkg_meta) ==
    IF pkg_meta.license # None
    THEN LET parsed_pkg_license == Parse(pkg_meta.license) IN
         IF parsed_pkg_license.exc # NoExc THEN parsed_pkg_license
         ELSE Return(format_license_var(
                         spdx_to_ebuild(parsed_pkg_license.value),
                         <<"LICENSE=", "Q">>))
    ELSE Return(<<>>)

ManifestNotFound == "RuntimeError: Cargo.toml not found"
MissingLicense == "RuntimeError: crate does not specify a license"

\* path is the crate archive: its file name, and its <stem>/Cargo.toml
\* member: a "file" (toml is its parsed content), "absent", or a "dir"
get_license_from_crate(path) ==
    IF ~EndsWithCrate(path.name) THEN Raise("AssertionError")
    ELSE IF path.member = "absent" THEN Raise("KeyError")
    ELSE IF path.member # "file" THEN Raise(ManifestNotFound)
    ELSE LET crate_metadata == get_package_metadata(path.toml) IN
         IF crate_metadata.exc # NoExc THEN crate_metadata
         ELSE IF crate_metadata.value.license = None
              THEN Raise(MissingLicense)
         ELSE Return(crate_metadata.value.license)

\* The sequences that list every element of S once (an iteration of a set)
Orders(S) ==
    {o \in [1..Cardinality(S) -> S] : \A x \in S : \E i \in DOMAIN o : o[i] = x}

\* A wrong combined_license: " AND ".join(crate_licenses)
combined_license_bare(order) == Join(<<" ", "AND", " ">>, order)

\* " AND ".join(f"( {x} )" for x in crate_licenses); order is the order in
\* which the set crate_licenses is iterated
combined_license(order) ==
    Join(<<" ", "AND", " ">>,
         [i \in 1..Len(order) |-> <<"(", " ">> \o order[i] \o <<" ", ")">>])

\* spdx.parse(combined_license, validate=True, strict=True)
parsed_license(order) == Parse(combined_license(order))

\* parsed_license.simplify()
final_license(order) == Simplify(parsed_license(order).value)

\* A wrong get_crate_LICENSE: no test of parsed_license for None, so that
\* parsed_license.simplify() raises
get_crate_LICENSE_unchecked(crate_files, order) ==
    LET read == [i \in 1..Len(crate_files) |->
                    get_license_from_crate(crate_files[i])]
        failed == {i \in 1..Len(crate_files) : read[i].exc # NoExc}
        crate_licenses_str ==
            format_license_var(spdx_to_ebuild(final_license(order)),
                               <<"LICENSE+=", "Q", " ">>)
    IN IF failed # {} THEN read[Min(failed)]
       ELSE IF parsed_license(order).exc # NoExc THEN parsed_license(order)
       ELSE IF parsed_license(order).value.op = "NONE"
            THEN Raise("AttributeError")
       ELSE IF crate_licenses_str = <<>> \/ Head(crate_licenses_str) # "N"
            THEN Return(<<" ">> \o crate_licenses_str)
       ELSE Return(crate_licenses_str)

get_crate_LICENSE(crate_files, order) ==
    LET read == [i \in 1..Len(crate_files) |->
                    get_license_from_crate(crate_files[i])]
        failed == {i \in 1..Len(crate_files) : read[i].exc # NoExc}
        crate_licenses_str ==
            format_license_var(spdx_to_ebuild(final_license(order)),
                               <<"LICENSE+=", "Q", " ">>)
    IN IF failed # {} THEN read[Min(failed)]
       ELSE IF parsed_license(order).exc # NoExc THEN parsed_license(order)
       ELSE IF parsed_license(order).value.op = "NONE" THEN Return(<<>>)
       ELSE IF crate_licenses_str = <<>> \/ Head(crate_licenses_str) # "N"
            THEN Return(<<" ">> \o crate_licenses_str)
       ELSE Return(crate_licenses_str)

\* set(map(get_license_from_crate, crate_files)), when every read succeeds
LicenseSet(crate_files) ==
    {get_license_from_crate(crate_files[i]).value :
        i \in {j \in 1..Len(crate_files) :
                  get_license_from_crate(crate_files[j]).exc = NoExc}}

OrNone(v) == IF v = None THEN <<>> ELSE v

get_ebuild(pkg_meta, crate_files, order, prog_version, year) ==
    LET crates == get_CRATES(crate_files)
        lic == get_crate_LICENSE(crate_files, order)
        pkg_license == get_package_LICENSE(pkg_meta)
    IN IF lic.exc # NoExc THEN lic
       ELSE IF pkg_license.exc # NoExc THEN pkg_license
       ELSE Return(EBUILD_TEMPLATE(crates, lic.value,
                                   OrNone(pkg_meta.description),
                                   OrNone(pkg_meta.homepage),
                                   pkg_license.value, prog_version, year))

\* ^ under re.MULTILINE: the start of the text or just after a newline
LineStart(text, k) == k = 0 \/ text[k] = "N"

\* $ under re.MULTILINE: the end of the text or just before a newline
LineEnd(text, k) == k = Len(text) \/ text[k + 1] = "N"

\* Offsets of the closing quote of a region opened at offset k:  (.*?)"$
Closers(text, k) ==
    {j \in (k + 2)..(Len(text) - 1) : text[j + 1] = "Q" /\ LineEnd(text, j + 1)}

\* ^head"(.*?)"$  matches at offset k (re.DOTALL: the value may span lines)
MatchesAt(text, head, k) ==
    /\ k + 2 <= Len(text)
    /\ text[k + 1] = head
    /\ LineStart(text, k)
    /\ text[k + 2] = "Q"
    /\ Closers(text, k) # {}

\* The match object: start(0), start(1), end(1), end(0); the lazy value
\* ends at the first closing quote
MatchAt(text, head, k) ==
    LET j == Min(Closers(text, k)) IN
    [start0 |-> k, start1 |-> k + 2, end1 |-> j, end0 |-> j + 1]

RECURSIVE finditer(_, _, _)
\* list(pattern.finditer(text)), scanning from offset pos: the leftmost
\* match, then the matches after its end
finditer(text, head, pos) ==
    LET starts == {k \in pos..Len(text) : MatchesAt(text, head, k)} IN
    IF starts = {} THEN <<>>
    ELSE LET m == MatchAt(text, head, Min(starts)) IN
         <<m>> \o finditer(text, head, m.end0)

\* r'^CRATES="(.*?)"$'
crates_re(text) == finditer(text, "C", 0)

\* r'^# Dependent crate licenses\nLICENSE[+]="(.*?)"$'
license_re(text) == finditer(text, "M", 0)

CratesNotFound == "RuntimeError: CRATES variable not found in ebuild"
MultipleCrates == "RuntimeError: Multiple CRATES variables found in ebuild"
LicenseNotFound == "RuntimeError: Crate LICENSE+= not found in ebuild"
MultipleLicense == "RuntimeError: Multiple crate LICENSE+= found in ebuild"
Overlap == "RuntimeError: CRATES and LICENSE+= overlap!"

\* A wrong ScanError: the count of LICENSE+= matches is not tested
ScanError_first_license(crates_m, license_m) ==
    IF crates_m = <<>> THEN CratesNotFound
    ELSE IF Len(crates_m) > 1 THEN MultipleCrates
    ELSE IF license_m = <<>> THEN LicenseNotFound
    ELSE NoExc

\* The checks that each pattern matches once: the exception raised, if any
ScanError(crates_m, license_m) ==
    IF crates_m = <<>> THEN CratesNotFound
    ELSE IF Len(crates_m) > 1 THEN MultipleCrates
    ELSE IF license_m = <<>> THEN LicenseNotFound
    ELSE IF Len(license_m) > 1 THEN MultipleLicense
    ELSE NoExc

\* The overlap test of update_ebuild: TRUE when it raises
OverlapRaised(crates, license) ==
    IF crates.start0 < license.start0
    THEN crates.end0 > license.start0
    ELSE crates.end0 < license.start0

\* The text returned: crates_value and license_value are get_CRATES(...)
\* and get_crate_LICENSE(...)
Splice(ebuild, crates, license, crates_value, license_value) ==
    LET first_match_start == Min({crates.start1, license.start1})
        first_match_end == Min({crates.end1, license.end1})
        second_match_start == Max({crates.start1, license.start1})
        second_match_end == Max({crates.end1, license.end1})
    IN SliceTo(ebuild, first_match_start)
       \o crates_value
       \o Slice(ebuild, first_match_end, second_match_start)
       \o license_value
       \o SliceFrom(ebuild, second_match_end)

update_ebuild(ebuild, pkg_meta, crate_files, order) ==
    LET crates_m == crates_re(ebuild)
        license_m == license_re(ebuild)
        crates == crates_m[1]
        license == license_m[1]
        crate_license == get_crate_LICENSE(crate_files, order)
    IN IF ScanError(crates_m, license_m) # NoExc
       THEN Raise(ScanError(crates_m, license_m))
       ELSE IF OverlapRaised(crates, license) THEN Raise(Overlap)
       ELSE IF crate_license.exc # NoExc THEN crate_license
       ELSE Return(Splice(ebuild, crates, license,
                          get_CRATES(crate_files), crate_license.value))

\* ------------------------------------------------------------------------
\* Inputs

\* Longest existing ebuild, in lines
MaxLines == 4

\* Most crate files of one call
MaxCrates == 1

\* Longest license declaration of a Cargo.toml, in lexemes
MaxDeclLen == 3

\* Longest text given to cargo_to_spdx
MaxTextLen == 4

\* All texts over alphabet A of at most n lexemes
Texts(A, n) == UNION {[1..k -> A] : k \in 0..n}

\* The parsed Cargo.toml of crate name that declares license
Manifest(name, license) ==
    [package |-> [name |-> name, version |-> <<"1">>, license |-> license]]

\* The parsed Cargo.toml of crate name with no license key
ManifestNoLicense(name) ==
    [package |-> [name |-> name, version |-> <<"1">>]]

\* A crate file  <stem>.crate  holding toml as <stem>/Cargo.toml
Crate(stem, toml) ==
    [name |-> stem \o DotCrate, member |-> "file", toml |-> toml]

\* The lines of an existing ebuild: the opening, the one-line and the
\* closing forms of the two assignments, a crate line and another line
EbuildLines ==
    { <<"C", "Q">>, <<"C", "Q", "Q">>, <<"TAB", "a">>, <<"Q">>,
      <<"M", "Q">>, <<"M", "Q", "Q">>, <<"M", "Q", " ", "MIT", "Q">>,
      <<"EAPI=8">> }

\* The existing ebuilds: files of 1..MaxLines lines, the last one ended by
\* a newline or not
Ebuilds ==
    {Join(<<"N">>, ls) \o end :
        ls \in Texts(EbuildLines, MaxLines) \ {<<>>}, end \in {<<>>, <<"N">>}}

\* The crate files a call may be given
CratePool ==
    { Crate(<<"a">>, Manifest(<<"a">>, <<"MIT">>)),
      Crate(<<"b">>, ManifestNoLicense(<<"b">>)) }

\* The Cargo.toml of the package itself, as get_package_metadata read it
PkgMetas ==
    { PackageMetadata(<<"p">>, <<"1">>, <<"MIT">>, <<"d">>, None),
      PackageMetadata(<<"p">>, <<"1">>, cargo_to_spdx(<<"MIT", "/", "Apache-2.0">>),
                      None, <<"h">>),
      PackageMetadata(<<"p">>, <<"1">>, None, None, None) }

\* update_ebuild never reads pkg_meta: one value stands for all
AnyMeta == PackageMetadata(<<"p">>, <<"1">>, <<"MIT">>, <<"d">>, None)

NotCalled == [op |-> "none", order |-> <<>>, exc |-> NoExc, value |-> None]

\* The call made, the iteration order its set took, and its outcome
Called(name, order, r) ==
    [op |-> name, order |-> order, exc |-> r.exc, value |-> r.value]

\* ------------------------------------------------------------------------
\* Generating and patching an ebuild

\* doc = <<>>: there is no ebuild yet
Init ==
    /\ archives \in Texts(CratePool, MaxCrates)
    /\ \/ doc = <<>> /\ meta \in PkgMetas
       \/ doc \in Ebuilds /\ meta = AnyMeta
    /\ decl = <<>>
    /\ ret = NotCalled

Call_get_ebuild ==
    /\ ret.op = "none"
    /\ doc = <<>>
    /\ \E order \in Orders(LicenseSet(archives)) :
           ret' = Called("get_ebuild", order,
                         get_ebuild(meta, archives, order, "0.1", "2022"))
    /\ UNCHANGED <<doc, archives, meta, decl>>

Call_update_ebuild ==
    /\ ret.op = "none"
    /\ doc # <<>>
    /\ \E order \in Orders(LicenseSet(archives)) :
           ret' = Called("update_ebuild", order,
                         update_ebuild(doc, meta, archives, order))
    /\ UNCHANGED <<doc, archives, meta, decl>>

Next == Call_get_ebuild \/ Call_update_ebuild

Spec == Init /\ [][Next]_vars

\* ------------------------------------------------------------------------
\* Combining the licenses of crates

LicenseLexemes == {"MIT", "Apache-2.0", "/", "AND", "OR", "(", ")"}

\* Longer declarations: a plain key, the deprecated slash form, an unknown
\* key, and declarations with unbalanced parentheses
DeclPool ==
    { <<"MIT">>, <<"Apache-2.0">>, <<"MIT", "/", "Apache-2.0">>,
      <<"MIT", " ", "AND", " ", "Apache-2.0">>,
      <<"(", "MIT", " ", "OR", " ", "Apache-2.0", ")", " ", "AND", " ", "MIT">>,
      <<"Foo">>, <<"(", "MIT">>, <<"MIT", ")", "OR", "(", "Apache-2.0">> }

Declarations == Texts(LicenseLexemes, MaxDeclLen) \cup DeclPool

InitLicense ==
    /\ doc = <<>>
    /\ archives \in
           {<<Crate(<<"a">>, Manifest(<<"a">>, e1))>> : e1 \in Declarations}
           \cup {<<Crate(<<"a">>, Manifest(<<"a">>, e1)),
                   Crate(<<"b">>, Manifest(<<"b">>, e2))>> :
                    e1 \in Declarations, e2 \in DeclPool}
    /\ meta = AnyMeta
    /\ decl = <<>>
    /\ ret = NotCalled

Call_get_crate_LICENSE ==
    /\ ret.op = "none"
    /\ \E order \in Orders(LicenseSet(archives)) :
           ret' = Called("get_crate_LICENSE", order,
                         get_crate_LICENSE(archives, order))
    /\ UNCHANGED <<doc, archives, meta, decl>>

NextLicense == Call_get_crate_LICENSE

SpecLicense == InitLicense /\ [][NextLicense]_vars

\* ------------------------------------------------------------------------
\* Normalising a license declaration

TextLexemes == {"/", " ", "OR", "x"}

InitNormalize ==
    /\ doc = <<>>
    /\ archives = <<>>
    /\ meta = AnyMeta
    /\ decl \in Texts(TextLexemes, MaxTextLen)
    /\ ret = NotCalled

Call_cargo_to_spdx ==
    /\ ret.op = "none"
    /\ ret' = Called("cargo_to_spdx", <<>>, Return(cargo_to_spdx(decl)))
    /\ UNCHANGED <<doc, archives, meta, decl>>

\* The result given to cargo_to_spdx once more
Call_cargo_to_spdx_again ==
    /\ ret.op = "cargo_to_spdx"
    /\ ret' = Called("cargo_to_spdx again", <<>>,
                     Return(cargo_to_spdx(ret.value)))
    /\ UNCHANGED <<doc, archives, meta, decl>>

NextNormalize == Call_cargo_to_spdx \/ Call_cargo_to_spdx_again

SpecNormalize == InitNormalize /\ [][NextNormalize]_vars

\* ------------------------------------------------------------------------
\* Properties of update_ebuild and get_ebuild

Updated == ret.op = "update_ebuild"
Generated == ret.op = "get_ebuild"
Returned == ret.exc = NoExc

\* Each pattern matches text exactly once
OneEach(text) == Len(crates_re(text)) = 1 /\ Len(license_re(text)) = 1

\* The two regions of a text in which each pattern matches once
CratesRegion(text) == crates_re(text)[1]
LicenseRegion(text) == license_re(text)[1]

\* The value a region captures
Captured(text, m) == Slice(text, m.start1, m.end1)

\* The full spans of two matches share a character
SpansIntersect(a, b) == a.start0 < b.end0 /\ b.start0 < a.end0

\* The text around the two captured values: before the first, between
\* the two, after the second, in file order
Frame(text) ==
    LET c == CratesRegion(text)
        l == LicenseRegion(text)
        f == IF c.start1 <= l.start1 THEN c ELSE l
        s == IF c.start1 <= l.start1 THEN l ELSE c
    IN <<SliceTo(text, f.start1), Slice(text, f.end1, s.start1),
         SliceFrom(text, s.end1)>>

\* C1: update_ebuild returns no document when the full span of the one
\* CRATES match and the full span of the one LICENSE+= match intersect,
\* whichever of the two starts first.
C1_OverlapRejected ==
    (Updated /\ OneEach(doc)
        /\ SpansIntersect(CratesRegion(doc), LicenseRegion(doc)))
    => ~Returned

\* C2: for a document with one CRATES and one LICENSE+= region that do not
\* overlap, the returned document has get_CRATES(...) as the value of
\* CRATES and get_crate_LICENSE(...) as the value of LICENSE+=, in either
\* file order.
C2_EachRegionItsValue ==
    (Updated /\ Returned /\ OneEach(doc)
        /\ ~SpansIntersect(CratesRegion(doc), LicenseRegion(doc)))
    => /\ OneEach(ret.value)
       /\ Captured(ret.value, CratesRegion(ret.value)) = get_CRATES(archives)
       /\ Captured(ret.value, LicenseRegion(ret.value))
              = get_crate_LICENSE(archives, ret.order).value

\* C3: a returned document still has both assignments, and the text before
\* the first captured value, between the two and after the second is the
\* text of the input: only the two captured values differ.
C3_OnlyValuesReplaced ==
    (Updated /\ Returned)
    => /\ OneEach(ret.value)
       /\ Frame(ret.value) = Frame(doc)

\* C4: when the CRATES region already holds get_CRATES(...) and the
\* LICENSE+= region already holds get_crate_LICENSE(...), the document is
\* returned unchanged, in either file order.
C4_PatchIsNoOp ==
    (Updated /\ OneEach(doc)
        /\ ~SpansIntersect(CratesRegion(doc), LicenseRegion(doc))
        /\ get_crate_LICENSE(archives, ret.order).exc = NoExc
        /\ Captured(doc, CratesRegion(doc)) = get_CRATES(archives)
        /\ Captured(doc, LicenseRegion(doc))
               = get_crate_LICENSE(archives, ret.order).value)
    => (Returned /\ ret.value = doc)

NotFoundErrors == {CratesNotFound, LicenseNotFound}
DuplicateErrors == {MultipleCrates, MultipleLicense}

\* C5: update_ebuild raises a not-found error only when a pattern has no
\* match and a duplicate error only when a pattern has several, raises one
\* of the two whenever a pattern does not match exactly once, and returns a
\* document only when each pattern matches exactly once.
C5_ExactlyOneMatchEach ==
    Updated
    => /\ ~OneEach(doc) => ret.exc \in NotFoundErrors \cup DuplicateErrors
       /\ Returned => OneEach(doc)
       /\ ret.exc \in NotFoundErrors
              => (crates_re(doc) = <<>> \/ license_re(doc) = <<>>)
       /\ ret.exc \in DuplicateErrors
              => (Len(crates_re(doc)) > 1 \/ Len(license_re(doc)) > 1)
       /\ ret.exc = CratesNotFound <=> crates_re(doc) = <<>>
       /\ ret.exc = MultipleCrates <=> Len(crates_re(doc)) > 1

\* Both a missing and a duplicated region were rejected: here LICENSE+=
\* is found twice behind a single CRATES
C5_Witness ==
    /\ Updated
    /\ ret.exc = MultipleLicense
    /\ Len(crates_re(doc)) = 1
    /\ Len(license_re(doc)) = 2

\* Some crate's Cargo.toml has no license key
SomeCrateWithoutLicense ==
    \E i \in 1..Len(archives) : "license" \notin DOMAIN archives[i].toml.package

\* C7: when a crate's Cargo.toml has no license key, get_ebuild fails with
\* the 'does not specify a license' error of get_license_from_crate.
C7_MissingLicenseReported ==
    (Generated /\ SomeCrateWithoutLicense) => ret.exc = MissingLicense

\* The opening quote of the one LICENSE+= assignment of text is followed
\* at once by a quote
EmptyLicenseAssignment(text) ==
    /\ Len(license_re(text)) = 1
    /\ text[LicenseRegion(text).start1 + 1] = "Q"

\* C9: with no crate files get_crate_LICENSE returns the empty text and
\* raises nothing: get_ebuild returns a document, update_ebuild raises only
\* for the document, and the document returned reads LICENSE+="".
C9_EmptyCrateLicense ==
    archives = <<>>
    => /\ Generated => (Returned /\ EmptyLicenseAssignment(ret.value))
       /\ Updated => \/ ret.exc \in NotFoundErrors \cup DuplicateErrors
                                    \cup {Overlap}
                     \/ Returned /\ EmptyLicenseAssignment(ret.value)

\* A LICENSE+= region that held a license was patched with no crate files
C9_Witness ==
    /\ archives = <<>>
    /\ Updated
    /\ Returned
    /\ OneEach(doc)
    /\ Captured(doc, LicenseRegion(doc)) = <<" ", "MIT">>

\* ------------------------------------------------------------------------
\* Properties of get_crate_LICENSE

Combined == ret.op = "get_crate_LICENSE"

RECURSIVE Denotes(_)
\* The license choices an expression allows: the sets of licenses that
\* satisfy it
Denotes(e) ==
    IF e.op = "SYM" THEN {S \in SUBSET KnownLicenses : e.key \in S}
    ELSE IF e.op = "AND"
         THEN {S \in SUBSET KnownLicenses :
                  \A i \in 1..Len(e.args) : S \in Denotes(e.args[i])}
    ELSE {S \in SUBSET KnownLicenses :
             \E i \in 1..Len(e.args) : S \in Denotes(e.args[i])}

\* The license of crate file i, as get_license_from_crate returns it
Declared(i) == get_license_from_crate(archives[i]).value

\* A license that is by itself a valid expression
Valid(license) ==
    /\ Parse(license).exc = NoExc
    /\ Parse(license).value.op # "NONE"

AllValid == \A i \in 1..Len(archives) : Valid(Declared(i))

\* The choices that satisfy every crate's license as a whole
Conjunction ==
    {S \in SUBSET KnownLicenses :
        \A i \in 1..Len(archives) : S \in Denotes(Parse(Declared(i)).value)}

\* C6: for valid licenses, the combined and simplified license allows
\* exactly the choices that satisfy each crate's license as a whole,
\* whichever license the set iteration joins first.
C6_CombinedIsConjunction ==
    (Combined /\ AllValid)
    => /\ Returned
       /\ Denotes(final_license(ret.order)) = Conjunction
       /\ \A o \in Orders(LicenseSet(archives)) :
              Denotes(final_license(o)) = Denotes(final_license(ret.order))

\* Two different valid licenses were combined, the second crate's first,
\* and the one joined last has an OR at its top level
C6_Witness ==
    /\ Combined
    /\ Returned
    /\ AllValid
    /\ Len(archives) = 2
    /\ Len(ret.order) = 2
    /\ ret.order[1] = Declared(2)
    /\ TopLevel(Tokenize(ret.order[2]), "OR") # {}
    /\ Denotes(final_license(ret.order)) # Denotes(Parse(Declared(1)).value)

\* C8: when the license of some crate is not by itself a valid expression,
\* get_crate_LICENSE fails with the invalid-expression error.
C8_EachDeclarationValidated ==
    (Combined /\ ~AllValid) => ret.exc = "ExpressionError"

\* ------------------------------------------------------------------------
\* Properties of cargo_to_spdx

\* Each "/" of text replaced by " OR ", every other lexeme kept in place
SlashesReplaced(text) ==
    Concat([i \in 1..Len(text) |->
               IF text[i] = "/" THEN <<" ", "OR", " ">> ELSE <<text[i]>>])

\* C10: cargo_to_spdx raises nothing, its result has no "/", is the text
\* with every "/" replaced by " OR " and the rest kept in order, and
\* cargo_to_spdx of the result is the result.
C10_NormalizeIdempotent ==
    /\ ret.op = "cargo_to_spdx"
           => /\ Returned
              /\ "/" \notin Range(ret.value)
              /\ ret.value = SlashesReplaced(decl)
    /\ ret.op = "cargo_to_spdx again"
           => /\ Returned
              /\ ret.value = SlashesReplaced(decl)

\* A text with two slashes was normalised twice
C10_Witness ==
    /\ ret.op = "cargo_to_spdx again"
    /\ Cardinality({i \in 1..Len(decl) : decl[i] = "/"}) >= 2
    /\ ret.value # decl

\* ------------------------------------------------------------------------
\* What does hold where a property above fails

\* When the two regions do not overlap, a returned document keeps both
\* assignments and all text around the two captured values
FramePreservedWithoutOverlap ==
    (Updated /\ Returned
        /\ ~SpansIntersect(CratesRegion(doc), LicenseRegion(doc)))
    => /\ OneEach(ret.value)
       /\ Frame(ret.value) = Frame(doc)

\* When CRATES comes first and the regions do not overlap, each region
\* receives its own value
OwnValueWhenCratesFirst ==
    (Updated /\ Returned
        /\ CratesRegion(doc).end0 <= LicenseRegion(doc).start0)
    => /\ OneEach(ret.value)
       /\ Captured(ret.value, CratesRegion(ret.value)) = get_CRATES(archives)
       /\ Captured(ret.value, LicenseRegion(ret.value))
              = get_crate_LICENSE(archives, ret.order).value

\* A crate without a license key makes every call fail: no document is
\* returned
NoRecipeWithoutLicense ==
    (ret.op # "none" /\ SomeCrateWithoutLicense) => ~Returned

====
